---- MODULE Spec2Model ----
(***************************************************************************)
(* Model of the LPS production-control spine: the enforcement engine       *)
(* (app/services/state_machine.py), the entities it mutates                *)
(* (app/models/domain.py) and the routes that call it (app/api/routes.py). *)
(*                                                                         *)
(* The four tables are sequences; a row's id is its position, as with an   *)
(* autoincrement primary key that is never deleted.  Timestamps are the    *)
(* value of the clock `now` when the row was written.                      *)
(***************************************************************************)
EXTENDS Integers, Sequences, FiniteSets, TLC

VARIABLES
    work_items,        \* table work_items
    constraints,       \* table constraints
    commitments,       \* table commitments
    learning_signals,  \* table learning_signals
    now,               \* datetime.utcnow()
    last,              \* what the last engine/route call did and returned
    steps,             \* calls made so far (bounds the run)
    sessions,          \* concurrent create_commitment requests, one db session each
    audit_events       \* table audit_events

vars == <<work_items, constraints, commitments, learning_signals, now, last, steps,
          sessions, audit_events>>

-----------------------------------------------------------------------------
(* Bounds of the model *)

MaxWorkItems == 1
MaxConstraints == 2
MaxCommitments == 2
MaxSignals == 2
MaxTime == 1
MaxSteps == 9

-----------------------------------------------------------------------------
(* Enumerations: app/models/enums.py *)

INTENT == "Intent"
NOT_READY == "Not Ready"
READY == "Ready"
COMMITTED == "Committed"
COMPLETE == "Complete"
FAILED == "Failed"
WorkItemState == {INTENT, NOT_READY, READY, COMMITTED, COMPLETE, FAILED}

OPEN == "Open"
CLEARED == "Cleared"
ConstraintStatus == {OPEN, CLEARED}

ACTIVE == "Active"
CommitmentStatus == {ACTIVE, COMPLETE, FAILED}

CAUSE_OTHER == "Other"
PrimaryCause == {"Access", "Materials", "Information", "Resources", "Permits",
                 "Plant or equipment", "Interfaces", "Weather", CAUSE_OTHER}

\* Python's None in a string-valued column, and in a DateTime column.
None == "None"
NoTime == -1

-----------------------------------------------------------------------------
(* Inputs the callers draw from *)

\* cleared_by_user_id of a clear
ClearInputs == {"user_123"}
\* (location, reference_plan_system) of a new work item
WorkItemInputs == {<<"Grid A1-A5", None>>}
\* (type, description) of a new constraint
ConstraintInputs == {<<"Materials", "Concrete ready">>, <<"Access", None>>}
\* (committed_by_user_id, owner_user_id) of a new commitment
CommitmentInputs == {<<"user_456", "user_123">>}
DueTimes == 0..(MaxTime - 1)
AutoFailNote == "Auto-failed: Completed after due date"

WorkItemIds == 1..Len(work_items)
ConstraintIds == 1..Len(constraints)
CommitmentIds == 1..Len(commitments)
SignalIds == 1..Len(learning_signals)

-----------------------------------------------------------------------------
(* Entities: app/models/domain.py *)

\* faulty variant: a work item linked to a reference plan starts out Ready
WorkItem_ready_when_planned(location, reference_system) ==
    [state |-> IF reference_system = None THEN INTENT ELSE READY,
     location |-> location, reference_plan_system |-> reference_system]

WorkItem(location, reference_system) ==
    [state |-> INTENT, location |-> location,
     reference_plan_system |-> reference_system]

Constraint(id, work_item_id, type, description) ==
    [id |-> id, work_item_id |-> work_item_id, type |-> type,
     description |-> description, status |-> OPEN,
     cleared_by_user_id |-> None, cleared_at |-> NoTime]

Commitment(id, work_item_id, committed_by_user_id, owner_user_id, due_at) ==
    [id |-> id, work_item_id |-> work_item_id,
     committed_by_user_id |-> committed_by_user_id,
     owner_user_id |-> owner_user_id, due_at |-> due_at, status |-> ACTIVE,
     completed_at |-> NoTime, failed_at |-> NoTime]

LearningSignal(id, work_item_id, commitment_id, primary_cause, secondary_cause, notes, drilldown_key) ==
    [id |-> id, work_item_id |-> work_item_id, commitment_id |-> commitment_id,
     primary_cause |-> primary_cause, secondary_cause |-> secondary_cause,
     notes |-> notes, drilldown_key |-> drilldown_key, created_at |-> now]

\* work_item.constraints: the rows of `cons` whose parent is w, in id order
work_item_constraints(cons, w) == SelectSeq(cons, LAMBDA c : c.work_item_id = w)

-----------------------------------------------------------------------------
(* Readiness: StateMachine.calculate_readiness, update_work_item_state *)

\* faulty variant: the loop returns after looking at the first constraint only
readiness_loop_first_only(cs) ==
    IF cs = <<>> THEN READY
    ELSE IF Head(cs).status = OPEN THEN NOT_READY ELSE READY

\* the for-loop of calculate_readiness
RECURSIVE readiness_loop(_)
readiness_loop(cs) ==
    IF cs = <<>> THEN READY
    ELSE IF Head(cs).status = OPEN THEN NOT_READY
    ELSE readiness_loop(Tail(cs))

\* faulty variant: the empty-collection test of calculate_readiness is missing
calculate_readiness_without_empty_test(cs) == readiness_loop(cs)

calculate_readiness(cs) ==
    IF cs = <<>> THEN NOT_READY ELSE readiness_loop(cs)

\* the states update_work_item_state leaves alone
FrozenStates == {COMMITTED, COMPLETE, FAILED}

\* faulty variant: the test for the frozen states is missing
update_work_item_state_without_frozen_test(wis, cons, w) ==
    LET new_state == calculate_readiness(work_item_constraints(cons, w))
    IN  IF wis[w].state # new_state
        THEN [wis EXCEPT ![w].state = new_state]
        ELSE wis

\* faulty variant: Ready is treated as one more state that constraints no longer change
update_work_item_state_ready_frozen(wis, cons, w) ==
    IF wis[w].state \in FrozenStates \cup {READY} THEN wis
    ELSE LET new_state == calculate_readiness(work_item_constraints(cons, w))
         IN  IF wis[w].state # new_state
             THEN [wis EXCEPT ![w].state = new_state]
             ELSE wis

\* the work_items table after update_work_item_state(w), given the constraints table
update_work_item_state(wis, cons, w) ==
    IF wis[w].state \in FrozenStates THEN wis
    ELSE LET new_state == calculate_readiness(work_item_constraints(cons, w))
         IN  IF wis[w].state # new_state
             THEN [wis EXCEPT ![w].state = new_state]
             ELSE wis

-----------------------------------------------------------------------------
(* Drilldown key: StateMachine._generate_drilldown_key *)

RECURSIVE join(_, _)
join(sep, parts) ==
    IF parts = <<>> THEN ""
    ELSE IF Len(parts) = 1 THEN parts[1]
    ELSE parts[1] \o sep \o join(sep, Tail(parts))

\* faulty variant: the default stands in for None only, not for the empty string
or_default_for_none_only(x, default) == IF x = None THEN default ELSE x

\* Python's `x or default` for an Optional[str]
or_default(x, default) == IF x = None \/ x = "" THEN default ELSE x

\* faulty variant: the key leaves the reference system out
generate_drilldown_key_without_reference(primary_cause, location, reference_system) ==
    join("|", <<primary_cause, or_default(location, "no_location")>>)

generate_drilldown_key(primary_cause, location, reference_system) ==
    join("|", <<primary_cause,
                or_default(location, "no_location"),
                or_default(reference_system, "no_reference")>>)

-----------------------------------------------------------------------------
(* What a call returned or raised *)

\* op(id, input) was called on an entity whose work item was in pre_state,
\* and returned ("ok") or raised `outcome` with `message`
Result(op, id, input, pre_state, outcome, message, open_constraints) ==
    [op |-> op, id |-> id, input |-> input, pre_state |-> pre_state,
     outcome |-> outcome, message |-> message, open_constraints |-> open_constraints]

Ok(op, id, input, pre_state) == Result(op, id, input, pre_state, "ok", "", <<>>)

\* A request to POST /work-items/{id}/commit with its own db session: where it is
\* (pc), the work item it loaded and the state it read, what its query for an
\* active commitment answered, and how it ended.
IdleSession == [pc |-> "idle", work_item_id |-> 0, state |-> None,
                active |-> FALSE, input |-> <<>>, outcome |-> None]
Sessions == {"A", "B"}

Init ==
    /\ work_items = <<>>
    /\ constraints = <<>>
    /\ commitments = <<>>
    /\ learning_signals = <<>>
    /\ now = 0
    /\ steps = 0
    /\ last = Ok("init", 0, <<>>, None)
    /\ sessions = [s \in Sessions |-> IdleSession]
    /\ audit_events = <<>>

-----------------------------------------------------------------------------
(* The clock, and the route that creates work items *)

\* No statement of state_machine.py or routes.py constructs an AuditEvent or
\* adds one to the session: whatever is called, the table stays as it is.
no_audit_write == audit_events' = audit_events

\* a step of the run: at most MaxSteps of them
Count == steps < MaxSteps /\ steps' = steps + 1 /\ no_audit_write
\* a whole call by a caller that is not one of the concurrent requests
Step == Count /\ UNCHANGED sessions

Tick ==
    /\ Step
    /\ now < MaxTime
    /\ now' = now + 1
    /\ last' = Ok("tick", 0, <<>>, None)
    /\ UNCHANGED <<work_items, constraints, commitments, learning_signals>>

\* routes.create_work_item
create_work_item(location, reference_system) ==
    /\ Len(work_items) < MaxWorkItems
    /\ work_items' = Append(work_items, WorkItem(location, reference_system))
    /\ last' = Ok("create_work_item", Len(work_items) + 1,
                <<location, reference_system>>, None)
    /\ UNCHANGED <<constraints, commitments, learning_signals, now>>

CreateWorkItem ==
    Step /\ \E i \in WorkItemInputs : create_work_item(i[1], i[2])

-----------------------------------------------------------------------------
(* Constraint operations *)

add_constraint(w, type, description) ==
    /\ Len(constraints) < MaxConstraints
    /\ LET cons == Append(constraints,
                          Constraint(Len(constraints) + 1, w, type, description))
       IN  /\ constraints' = cons
           /\ work_items' = update_work_item_state(work_items, cons, w)
    /\ last' = Ok("add_constraint", Len(constraints) + 1, <<type, description>>,
                work_items[w].state)
    /\ UNCHANGED <<commitments, learning_signals, now>>

\* faulty variant: the constraint is cleared, the work item's readiness is not
\* computed again
clear_constraint_without_recompute(c, cleared_by_user_id) ==
    /\ constraints' = [constraints EXCEPT ![c].status = CLEARED,
                                          ![c].cleared_by_user_id = cleared_by_user_id,
                                          ![c].cleared_at = now]
    /\ last' = Ok("clear_constraint", c, <<cleared_by_user_id>>,
                work_items[constraints[c].work_item_id].state)
    /\ UNCHANGED <<work_items, commitments, learning_signals, now>>

clear_constraint(c, cleared_by_user_id) ==
    /\ LET cons == [constraints EXCEPT ![c].status = CLEARED,
                                       ![c].cleared_by_user_id = cleared_by_user_id,
                                       ![c].cleared_at = now]
       IN  /\ constraints' = cons
           /\ work_items' = update_work_item_state(work_items, cons,
                                                   constraints[c].work_item_id)
    /\ last' = Ok("clear_constraint", c, <<cleared_by_user_id>>,
                work_items[constraints[c].work_item_id].state)
    /\ UNCHANGED <<commitments, learning_signals, now>>

\* faulty variant: the status goes back to Open, the clearer's fields stay
reopen_constraint_keeping_clearer(c) ==
    /\ LET cons == [constraints EXCEPT ![c].status = OPEN]
       IN  /\ constraints' = cons
           /\ work_items' = update_work_item_state(work_items, cons,
                                                   constraints[c].work_item_id)
    /\ last' = Ok("reopen_constraint", c, <<>>,
                work_items[constraints[c].work_item_id].state)
    /\ UNCHANGED <<commitments, learning_signals, now>>

\* faulty variant: the constraint is reopened, the work item's readiness is not
\* computed again
reopen_constraint_without_recompute(c) ==
    /\ constraints' = [constraints EXCEPT ![c].status = OPEN,
                                          ![c].cleared_by_user_id = None,
                                          ![c].cleared_at = NoTime]
    /\ last' = Ok("reopen_constraint", c, <<>>,
                work_items[constraints[c].work_item_id].state)
    /\ UNCHANGED <<work_items, commitments, learning_signals, now>>

reopen_constraint(c) ==
    /\ LET cons == [constraints EXCEPT ![c].status = OPEN,
                                       ![c].cleared_by_user_id = None,
                                       ![c].cleared_at = NoTime]
       IN  /\ constraints' = cons
           /\ work_items' = update_work_item_state(work_items, cons,
                                                   constraints[c].work_item_id)
    /\ last' = Ok("reopen_constraint", c, <<>>,
                work_items[constraints[c].work_item_id].state)
    /\ UNCHANGED <<commitments, learning_signals, now>>

AddConstraint ==
    Step /\ \E w \in WorkItemIds, i \in ConstraintInputs : add_constraint(w, i[1], i[2])
ClearConstraint ==
    Step /\ \E c \in ConstraintIds, u \in ClearInputs : clear_constraint(c, u)
ReopenConstraint ==
    Step /\ \E c \in ConstraintIds : reopen_constraint(c)

-----------------------------------------------------------------------------
(* Commitment operations *)

\* db.query(Commitment).filter(work_item_id == w, status == ACTIVE).first() is not None
has_active_commitment(coms, w) ==
    \E k \in 1..Len(coms) : coms[k].work_item_id = w /\ coms[k].status = ACTIVE

\* faulty variant: a constraint is cited by its type alone
cite_type_only(c) == c.type

\* f"{c.type}: {c.description or '(no description)'}"
cite(c) == c.type \o ": " \o or_default(c.description, "(no description)")

RECURSIVE cite_all(_)
cite_all(cs) == IF cs = <<>> THEN <<>> ELSE <<cite(Head(cs))>> \o cite_all(Tail(cs))

\* the list comprehension of create_commitment: the Open constraints of w, cited
open_constraints_of(cons, w) ==
    cite_all(SelectSeq(work_item_constraints(cons, w), LAMBDA c : c.status = OPEN))

\* class RefusalError, and "nothing raised"
RefusalError(message, open_constraints) ==
    [raised |-> TRUE, message |-> message, open_constraints |-> open_constraints]
NoRefusal == [raised |-> FALSE, message |-> "", open_constraints |-> <<>>]

\* faulty variant: the readiness test is missing, only an active commitment refuses
create_commitment_refusal_without_state_test(w, state, active) ==
    IF active
    THEN RefusalError("REFUSAL: This work item already has an active commitment. "
                        \o "Complete or fail the existing commitment first.", <<>>)
    ELSE NoRefusal

\* faulty variant: the refusals are computed but never raised
create_commitment_refusal_never_raised(w, state, active) == NoRefusal

\* faulty variant: a work item linked to a reference plan is taken to be ready
create_commitment_refusal_unless_planned(w, state, active) ==
    IF active
    THEN RefusalError("REFUSAL: This work item already has an active commitment. "
                        \o "Complete or fail the existing commitment first.", <<>>)
    ELSE IF state # READY /\ work_items[w].reference_plan_system = None
         THEN RefusalError("REFUSAL: Cannot commit Not Ready work. "
                             \o "The following constraints are still Open: "
                             \o join(", ", open_constraints_of(constraints, w)),
                           open_constraints_of(constraints, w))
         ELSE NoRefusal

\* faulty variant: readiness is tested first, the active commitment after it
create_commitment_refusal_readiness_first(w, state, active) ==
    IF state # READY
    THEN RefusalError("REFUSAL: Cannot commit Not Ready work. "
                        \o "The following constraints are still Open: "
                        \o join(", ", open_constraints_of(constraints, w)),
                      open_constraints_of(constraints, w))
    ELSE IF active
         THEN RefusalError("REFUSAL: This work item already has an active commitment. "
                             \o "Complete or fail the existing commitment first.", <<>>)
         ELSE NoRefusal

\* What create_commitment raises for work item w whose state it reads as `state`,
\* having found (or not) an active commitment; NoRefusal when it goes on to commit.
create_commitment_refusal(w, state, active) ==
    IF active
    THEN RefusalError("REFUSAL: This work item already has an active commitment. "
                        \o "Complete or fail the existing commitment first.", <<>>)
    ELSE IF state # READY
         THEN IF work_item_constraints(constraints, w) = <<>>
              THEN RefusalError(
                       "REFUSAL: Cannot commit work with no constraints. "
                         \o "Add at least one constraint and clear it to "
                         \o "demonstrate readiness.", <<>>)
              ELSE RefusalError(
                       "REFUSAL: Cannot commit Not Ready work. "
                         \o "The following constraints are still Open: "
                         \o join(", ", open_constraints_of(constraints, w)),
                       open_constraints_of(constraints, w))
         ELSE NoRefusal

\* lines 194-211: insert the commitment, set the work item Committed, commit
insert_commitment(w, committed_by_user_id, owner_user_id, due_at) ==
    /\ Len(commitments) < MaxCommitments
    /\ commitments' = Append(commitments,
                             Commitment(Len(commitments) + 1, w, committed_by_user_id,
                                        owner_user_id, due_at))
    /\ work_items' = [work_items EXCEPT ![w].state = COMMITTED]

\* create_commitment run by a session that read the work item's state as `state`
\* and whose query for an active commitment answered `active`
create_commitment_in(w, committed_by_user_id, owner_user_id, due_at, state, active) ==
    LET refusal == create_commitment_refusal(w, state, active)
        input == <<committed_by_user_id, owner_user_id, due_at>>
    IN  /\ IF refusal.raised
           THEN /\ last' = Result("create_commitment", w, input, state, "RefusalError",
                                  refusal.message, refusal.open_constraints)
                /\ UNCHANGED <<work_items, commitments>>
           ELSE /\ insert_commitment(w, committed_by_user_id, owner_user_id, due_at)
                /\ last' = Ok("create_commitment", w, input, state)
        /\ UNCHANGED <<constraints, learning_signals, now>>

\* one caller: the state and the query are read in the same uninterrupted call
create_commitment(w, committed_by_user_id, owner_user_id, due_at) ==
    create_commitment_in(w, committed_by_user_id, owner_user_id, due_at,
                         work_items[w].state, has_active_commitment(commitments, w))

\* faulty variant: the commitment is marked Failed, the work item is left as it was
mark_failed_without_work_item(k) ==
    /\ commitments' = [commitments EXCEPT ![k].status = FAILED, ![k].failed_at = now]
    /\ UNCHANGED work_items

\* faulty variant: failing a commitment also moves its due time to the failure
mark_failed_moving_due_at(k) ==
    /\ commitments' = [commitments EXCEPT ![k].status = FAILED, ![k].failed_at = now,
                                          ![k].due_at = now]
    /\ work_items' = [work_items EXCEPT ![commitments[k].work_item_id].state = FAILED]

\* lines 257-265 of fail_commitment: what it writes on the entities before the
\* primary cause is first used
mark_failed(k) ==
    /\ commitments' = [commitments EXCEPT ![k].status = FAILED, ![k].failed_at = now]
    /\ work_items' = [work_items EXCEPT ![commitments[k].work_item_id].state = FAILED]

\* lines 267-285 of fail_commitment: the learning signal
add_learning_signal(k, primary_cause, secondary_cause, notes) ==
    LET w == commitments[k].work_item_id
    IN  /\ Len(learning_signals) < MaxSignals
        /\ learning_signals' =
               Append(learning_signals,
                      LearningSignal(Len(learning_signals) + 1, w, k, primary_cause,
                                     secondary_cause, notes,
                                     generate_drilldown_key(
                                         primary_cause, work_items[w].location,
                                         work_items[w].reference_plan_system)))

\* the body of fail_commitment for a member of PrimaryCause
fail_commitment_body(k, primary_cause, secondary_cause, notes) ==
    /\ mark_failed(k)
    /\ add_learning_signal(k, primary_cause, secondary_cause, notes)

\* fail_commitment(commitment, primary_cause, ...): with primary_cause None the
\* entities are written first and `primary_cause.value` then raises AttributeError
fail_commitment(k, primary_cause, secondary_cause, notes) ==
    LET input == <<primary_cause, secondary_cause, notes>>
        pre == work_items[commitments[k].work_item_id].state
    IN  /\ IF primary_cause = None
           THEN /\ mark_failed(k)
                /\ last' = Result("fail_commitment", k, input, pre, "AttributeError",
                                  "'NoneType' object has no attribute 'value'", <<>>)
                /\ UNCHANGED learning_signals
           ELSE /\ fail_commitment_body(k, primary_cause, secondary_cause, notes)
                /\ last' = Ok("fail_commitment", k, input, pre)
        /\ UNCHANGED <<constraints, now>>

\* fail_commitment(commitment): Python rejects the call, the body never runs
fail_commitment_missing_argument(k) ==
    /\ last' = Result("fail_commitment", k, <<>>,
                      work_items[commitments[k].work_item_id].state, "TypeError",
                      "fail_commitment() missing 1 required positional argument: "
                        \o "'primary_cause'", <<>>)
    /\ UNCHANGED <<work_items, constraints, commitments, learning_signals, now>>

\* faulty variant: completing exactly at the due time counts as late
is_late_at_due_time(t, due_at) == t >= due_at

\* `now > commitment.due_at`
is_late(t, due_at) == t > due_at

complete_commitment(k) ==
    /\ IF is_late(now, commitments[k].due_at)
       THEN fail_commitment_body(k, CAUSE_OTHER, None, AutoFailNote)
       ELSE /\ commitments' = [commitments EXCEPT ![k].status = COMPLETE,
                                                  ![k].completed_at = now]
            /\ work_items' = [work_items EXCEPT
                                  ![commitments[k].work_item_id].state = COMPLETE]
            /\ UNCHANGED learning_signals
    /\ last' = Ok("complete_commitment", k, <<>>,
                  work_items[commitments[k].work_item_id].state)
    /\ UNCHANGED <<constraints, now>>

\* the name of the member of WorkItemState whose value is s
member_name(s) ==
    CASE s = INTENT -> "INTENT"
      [] s = NOT_READY -> "NOT_READY"
      [] s = READY -> "READY"
      [] s = COMMITTED -> "COMMITTED"
      [] s = COMPLETE -> "COMPLETE"
      [] s = FAILED -> "FAILED"

\* f"{work_item.state}" for a member of a (str, Enum) class: its value where
\* format() of a mixed-in enum uses the str format, "WorkItemState.<NAME>" where
\* it uses Enum.__str__ (the interpreter decides)
format_state(s) == {s, "WorkItemState." \o member_name(s)}

\* the ValueError reset_to_intent raises
reset_to_intent_error(w, text) ==
    Result("reset_to_intent", w, <<>>, work_items[w].state, "ValueError",
           "Can only reset Failed or Complete work items. "
             \o "Current state: " \o text, <<>>)

\* faulty variant: the test of the current state is missing
reset_to_intent_from_any_state(w) ==
    /\ work_items' = [work_items EXCEPT ![w].state = INTENT]
    /\ last' = Ok("reset_to_intent", w, <<>>, work_items[w].state)
    /\ UNCHANGED <<constraints, commitments, learning_signals, now>>

\* faulty variant: the new cycle starts with the work item's constraints reopened
reset_to_intent_reopening_constraints(w) ==
    /\ IF work_items[w].state \notin {FAILED, COMPLETE}
       THEN /\ \E text \in format_state(work_items[w].state) :
                   last' = reset_to_intent_error(w, text)
            /\ UNCHANGED <<work_items, constraints>>
       ELSE /\ work_items' = [work_items EXCEPT ![w].state = INTENT]
            /\ constraints' =
                   [c \in DOMAIN constraints |->
                       IF constraints[c].work_item_id = w
                       THEN [constraints[c] EXCEPT !.status = OPEN,
                                                   !.cleared_by_user_id = None,
                                                   !.cleared_at = NoTime]
                       ELSE constraints[c]]
            /\ last' = Ok("reset_to_intent", w, <<>>, work_items[w].state)
    /\ UNCHANGED <<commitments, learning_signals, now>>

reset_to_intent(w) ==
    /\ IF work_items[w].state \notin {FAILED, COMPLETE}
       THEN /\ \E text \in format_state(work_items[w].state) :
                   last' = reset_to_intent_error(w, text)
            /\ UNCHANGED work_items
       ELSE /\ work_items' = [work_items EXCEPT ![w].state = INTENT]
            /\ last' = Ok("reset_to_intent", w, <<>>, work_items[w].state)
    /\ UNCHANGED <<constraints, commitments, learning_signals, now>>

\* sm.attempt_modify_commitment(commitment, <field>=...): class StateMachine
\* defines no such method, so the attribute lookup raises before anything runs
attempt_modify_commitment(k, field) ==
    /\ last' = Result("attempt_modify_commitment", k, <<field>>,
                      work_items[commitments[k].work_item_id].state, "AttributeError",
                      "'StateMachine' object has no attribute "
                        \o "'attempt_modify_commitment'", <<>>)
    /\ UNCHANGED <<work_items, constraints, commitments, learning_signals, now>>

\* the keyword a caller of attempt_modify_commitment names
ModifyInputs == {"due_at", "owner_user_id"}

\* (primary_cause, secondary_cause, notes) of a failure report
FailInputs == {<<"Weather", None, "Unexpected rain">>, <<None, None, None>>}

CreateCommitment ==
    Step /\ \E w \in WorkItemIds, i \in CommitmentInputs, d \in DueTimes :
                create_commitment(w, i[1], i[2], d)
CompleteCommitment ==
    Step /\ \E k \in CommitmentIds : complete_commitment(k)
FailCommitment ==
    Step /\ \E k \in CommitmentIds, i \in FailInputs :
                fail_commitment(k, i[1], i[2], i[3])
FailCommitmentMissingArgument ==
    Step /\ \E k \in CommitmentIds : fail_commitment_missing_argument(k)
ResetToIntent ==
    Step /\ \E w \in WorkItemIds : reset_to_intent(w)
AttemptModifyCommitment ==
    Step /\ \E k \in CommitmentIds, f \in ModifyInputs : attempt_modify_commitment(k, f)

-----------------------------------------------------------------------------
(* One caller, one session: every call runs to its end before the next *)

Next ==
    \/ Tick
    \/ CreateWorkItem
    \/ AddConstraint
    \/ ClearConstraint
    \/ ReopenConstraint
    \/ CreateCommitment
    \/ CompleteCommitment
    \/ FailCommitment
    \/ FailCommitmentMissingArgument
    \/ ResetToIntent
    \/ AttemptModifyCommitment

Spec == Init /\ [][Next]_vars

-----------------------------------------------------------------------------
(* Concurrent requests to routes.create_commitment: each has its own session  *)
(* (database.get_db), the sessions share the tables and nothing locks a row   *)
(* or a table between a session's reads and its commit.                       *)

\* routes.create_commitment lines 137-147: the session loads the work item
begin_request(s, w, committed_by_user_id, owner_user_id, due_at) ==
    /\ sessions[s].pc = "idle"
    /\ sessions' = [sessions EXCEPT ![s] =
                       [pc |-> "loaded", work_item_id |-> w,
                        state |-> work_items[w].state, active |-> FALSE,
                        input |-> <<committed_by_user_id, owner_user_id, due_at>>,
                        outcome |-> None]]
    /\ UNCHANGED <<work_items, constraints, commitments, learning_signals, now, last>>

\* state_machine.create_commitment lines 162-165: the query for an active commitment
query_active(s) ==
    /\ sessions[s].pc = "loaded"
    /\ sessions' = [sessions EXCEPT
                       ![s].pc = "queried",
                       ![s].active = has_active_commitment(commitments,
                                                           sessions[s].work_item_id)]
    /\ UNCHANGED <<work_items, constraints, commitments, learning_signals, now, last>>

\* state_machine.create_commitment lines 167-211: refuse, or insert and commit
finish_request(s) ==
    /\ sessions[s].pc = "queried"
    /\ create_commitment_in(sessions[s].work_item_id, sessions[s].input[1],
                            sessions[s].input[2], sessions[s].input[3],
                            sessions[s].state, sessions[s].active)
    /\ sessions' = [sessions EXCEPT ![s].pc = "done", ![s].outcome = last'.outcome]

BeginRequest ==
    Count /\ \E s \in Sessions, w \in WorkItemIds, i \in CommitmentInputs,
                d \in DueTimes : begin_request(s, w, i[1], i[2], d)
QueryActive == Count /\ \E s \in Sessions : query_active(s)
FinishRequest == Count /\ \E s \in Sessions : finish_request(s)

NextConcurrent ==
    \/ CreateWorkItem
    \/ AddConstraint
    \/ ClearConstraint
    \/ BeginRequest
    \/ QueryActive
    \/ FinishRequest

SpecConcurrent == Init /\ [][NextConcurrent]_vars

-----------------------------------------------------------------------------
(* The constraint operations commit by commit.  add_constraint,               *)
(* clear_constraint and reopen_constraint commit the constraint first          *)
(* (db.commit() at lines 100, 121, 136) and the work item's state in a second  *)
(* transaction (update_work_item_state, line 78); what is committed is what    *)
(* every other session reads.                                                  *)

\* the session is between the two commits of a constraint operation on work item w
constraint_committed(s, op, c, w) ==
    sessions' = [sessions EXCEPT ![s] =
                    [pc |-> "constraint_committed", work_item_id |-> w,
                     state |-> work_items[w].state, active |-> FALSE,
                     input |-> <<op, c>>, outcome |-> None]]

\* add_constraint lines 92-101: insert the Open constraint and commit
commit_added_constraint(s, w, type, description) ==
    /\ sessions[s].pc = "idle"
    /\ Len(constraints) < MaxConstraints
    /\ constraints' = Append(constraints,
                             Constraint(Len(constraints) + 1, w, type, description))
    /\ constraint_committed(s, "add_constraint", Len(constraints) + 1, w)
    /\ UNCHANGED <<work_items, commitments, learning_signals, now, last>>

\* clear_constraint lines 118-121: write the three fields and commit
commit_cleared_constraint(s, c, cleared_by_user_id) ==
    /\ sessions[s].pc = "idle"
    /\ constraints' = [constraints EXCEPT ![c].status = CLEARED,
                                          ![c].cleared_by_user_id = cleared_by_user_id,
                                          ![c].cleared_at = now]
    /\ constraint_committed(s, "clear_constraint", c, constraints[c].work_item_id)
    /\ UNCHANGED <<work_items, commitments, learning_signals, now, last>>

\* reopen_constraint lines 133-136: write the three fields and commit
commit_reopened_constraint(s, c) ==
    /\ sessions[s].pc = "idle"
    /\ constraints' = [constraints EXCEPT ![c].status = OPEN,
                                          ![c].cleared_by_user_id = None,
                                          ![c].cleared_at = NoTime]
    /\ constraint_committed(s, "reopen_constraint", c, constraints[c].work_item_id)
    /\ UNCHANGED <<work_items, commitments, learning_signals, now, last>>

\* lines 103-105, 123-125, 138-140: update_work_item_state on the parent, which
\* reads the constraints as they are committed now, and the return
commit_recomputed_state(s) ==
    /\ sessions[s].pc = "constraint_committed"
    /\ work_items' = update_work_item_state(work_items, constraints,
                                            sessions[s].work_item_id)
    /\ last' = Ok(sessions[s].input[1], sessions[s].input[2], <<>>,
                  work_items[sessions[s].work_item_id].state)
    /\ sessions' = [sessions EXCEPT ![s] = IdleSession]
    /\ UNCHANGED <<constraints, commitments, learning_signals, now>>

CommitAddedConstraint ==
    Count /\ \E s \in Sessions, w \in WorkItemIds, i \in ConstraintInputs :
                commit_added_constraint(s, w, i[1], i[2])
CommitClearedConstraint ==
    Count /\ \E s \in Sessions, c \in ConstraintIds, u \in ClearInputs :
                commit_cleared_constraint(s, c, u)
CommitReopenedConstraint ==
    Count /\ \E s \in Sessions, c \in ConstraintIds : commit_reopened_constraint(s, c)
CommitRecomputedState ==
    Count /\ \E s \in Sessions : commit_recomputed_state(s)

NextCommits ==
    \/ CreateWorkItem
    \/ CommitAddedConstraint
    \/ CommitClearedConstraint
    \/ CommitReopenedConstraint
    \/ CommitRecomputedState
    \/ CreateCommitment

SpecCommits == Init /\ [][NextCommits]_vars

-----------------------------------------------------------------------------
(* StateMachine._generate_drilldown_key on its own: called with arguments a    *)
(* caller may pass, the key it returns kept in last.message.                   *)

\* Optional[str] locations: absent, empty, a place, and the placeholder's own text
LocationInputs == {None, "", "Grid A1-A5", "no_location"}
\* Optional[str] reference systems: absent, empty, and ReferencePlanSystem's values
ReferenceInputs == {None, "", "MSP", "P6", "Other"}

InitDrilldownKey ==
    /\ work_items = <<>>
    /\ constraints = <<>>
    /\ commitments = <<>>
    /\ learning_signals = <<>>
    /\ now = 0
    /\ steps = 0
    /\ \E primary_cause \in PrimaryCause, location \in LocationInputs,
          reference_system \in ReferenceInputs :
           last = Ok("arguments", 0, <<primary_cause, location, reference_system>>, None)
    /\ sessions = [s \in Sessions |-> IdleSession]
    /\ audit_events = <<>>

GenerateDrilldownKey ==
    /\ Step
    /\ last.op = "arguments"
    /\ last' = Result("_generate_drilldown_key", 0, last.input, None, "ok",
                      generate_drilldown_key(last.input[1], last.input[2],
                                             last.input[3]), <<>>)
    /\ UNCHANGED <<work_items, constraints, commitments, learning_signals, now>>

NextDrilldownKey == GenerateDrilldownKey

SpecDrilldownKey == InitDrilldownKey /\ [][NextDrilldownKey]_vars

-----------------------------------------------------------------------------
(* routes.get_drilldown: the aggregation of the learning signals by key *)

\* GROUP BY drilldown_key with count(id) and max(created_at): one row per key
drilldown_groups(signals) ==
    LET keys == {signals[i].drilldown_key : i \in DOMAIN signals}
        of(k) == {i \in DOMAIN signals : signals[i].drilldown_key = k}
    IN  {[drilldown_key |-> k,
          count |-> Cardinality(of(k)),
          latest |-> CHOOSE t \in {signals[i].created_at : i \in of(k)} :
                         \A i \in of(k) : signals[i].created_at <= t] : k \in keys}

\* ORDER BY count(id) DESC and nothing else: every order of the rows in which the
\* counts do not increase is an answer the database may give
drilldown_results(signals) ==
    LET groups == drilldown_groups(signals)
        n == Cardinality(groups)
    IN  {r \in [1..n -> groups] :
            /\ \A i, j \in 1..n : i # j => r[i] # r[j]
            /\ \A i, j \in 1..n : i < j => r[i].count >= r[j].count}

\* a key split at "|" (for parts that hold no "|" themselves): the cause of a
\* signal of the group, and its work item's location and reference system, each
\* with its placeholder shown as "Not specified"
DrilldownItem(row) ==
    LET l == CHOOSE l \in SignalIds :
                 learning_signals[l].drilldown_key = row.drilldown_key
        w == learning_signals[l].work_item_id
        location == or_default(work_items[w].location, "no_location")
        reference_system == or_default(work_items[w].reference_plan_system,
                                       "no_reference")
    IN  [primary_cause |-> learning_signals[l].primary_cause,
         location |-> IF location # "no_location" THEN location
                      ELSE "Not specified",
         reference_system |-> IF reference_system # "no_reference"
                              THEN reference_system ELSE "Not specified",
         count |-> row.count,
         latest_occurrence |-> row.latest]

\* GET /learning-signals/drilldown: the rows the query returned and the items made
\* of them, in the same order
get_drilldown ==
    /\ \E results \in drilldown_results(learning_signals) :
           last' = [op |-> "get_drilldown", id |-> 0, input |-> <<>>,
                    pre_state |-> None, outcome |-> "ok", message |-> "",
                    open_constraints |-> <<>>, results |-> results,
                    drilldown_items |-> [i \in DOMAIN results |->
                                            DrilldownItem(results[i])]]
    /\ UNCHANGED <<work_items, constraints, commitments, learning_signals, now>>

GetDrilldown == Step /\ get_drilldown

NextDrilldown ==
    \/ Tick
    \/ CreateWorkItem
    \/ AddConstraint
    \/ ClearConstraint
    \/ CreateCommitment
    \/ CompleteCommitment
    \/ FailCommitment
    \/ GetDrilldown

SpecDrilldown == Init /\ [][NextDrilldown]_vars

-----------------------------------------------------------------------------
(* Two work items that differ in their reference plan alone, driven by the same
   calls: every call made on the first is made next, with the same arguments,
   on the second *)

\* the reference plan systems a work item can be linked to
ReferencePlanSystem == {"MSP", "P6", "Other"}

\* the first work item has no reference plan, the second is linked to one
InitReferencePlan ==
    /\ \E reference_system \in ReferencePlanSystem :
           work_items = <<WorkItem("Grid A1-A5", None),
                          WorkItem("Grid A1-A5", reference_system)>>
    /\ constraints = <<>>
    /\ commitments = <<>>
    /\ learning_signals = <<>>
    /\ now = 0
    /\ steps = 0
    /\ last = Ok("init", 0, <<>>, None)
    /\ sessions = [s \in Sessions |-> IdleSession]
    /\ audit_events = <<>>

\* the work item the last call was about (0 when it was about none)
work_item_of_last ==
    CASE last.op \in {"create_commitment", "reset_to_intent"} -> last.id
      [] last.op \in {"add_constraint", "clear_constraint", "reopen_constraint"} ->
             constraints[last.id].work_item_id
      [] last.op \in {"complete_commitment", "fail_commitment"} ->
             commitments[last.id].work_item_id
      [] OTHER -> 0

\* the last call, made on the first work item, has yet to be made on the second
to_repeat == work_item_of_last = 1

\* the entity of the second work item that answers to the one the last call
\* was about: the two are created one right after the other
repeated_on(entities) ==
    {e \in DOMAIN entities : e = last.id + 1 /\ entities[e].work_item_id = 2}
first_of(entities) == {e \in DOMAIN entities : entities[e].work_item_id = 1}

TickBoth == ~to_repeat /\ Tick

AddConstraintBoth ==
    /\ Step
    /\ IF to_repeat
       THEN last.op = "add_constraint" /\ add_constraint(2, last.input[1], last.input[2])
       ELSE \E i \in ConstraintInputs : add_constraint(1, i[1], i[2])

ClearConstraintBoth ==
    /\ Step
    /\ IF to_repeat
       THEN /\ last.op = "clear_constraint"
            /\ \E c \in repeated_on(constraints) : clear_constraint(c, last.input[1])
       ELSE \E c \in first_of(constraints), u \in ClearInputs : clear_constraint(c, u)

ReopenConstraintBoth ==
    /\ Step
    /\ IF to_repeat
       THEN /\ last.op = "reopen_constraint"
            /\ \E c \in repeated_on(constraints) : reopen_constraint(c)
       ELSE \E c \in first_of(constraints) : reopen_constraint(c)

CreateCommitmentBoth ==
    /\ Step
    /\ IF to_repeat
       THEN /\ last.op = "create_commitment"
            /\ create_commitment(2, last.input[1], last.input[2], last.input[3])
       ELSE \E i \in CommitmentInputs, d \in DueTimes :
                create_commitment(1, i[1], i[2], d)

CompleteCommitmentBoth ==
    /\ Step
    /\ IF to_repeat
       THEN /\ last.op = "complete_commitment"
            /\ \E k \in repeated_on(commitments) : complete_commitment(k)
       ELSE \E k \in first_of(commitments) : complete_commitment(k)

FailCommitmentBoth ==
    /\ Step
    /\ IF to_repeat
       THEN /\ last.op = "fail_commitment"
            /\ \E k \in repeated_on(commitments) :
                   fail_commitment(k, last.input[1], last.input[2], last.input[3])
       ELSE \E k \in first_of(commitments), i \in FailInputs :
                fail_commitment(k, i[1], i[2], i[3])

ResetToIntentBoth ==
    /\ Step
    /\ IF to_repeat
       THEN last.op = "reset_to_intent" /\ reset_to_intent(2)
       ELSE reset_to_intent(1)

NextReferencePlan ==
    \/ TickBoth
    \/ AddConstraintBoth
    \/ ClearConstraintBoth
    \/ ReopenConstraintBoth
    \/ CreateCommitmentBoth
    \/ CompleteCommitmentBoth
    \/ FailCommitmentBoth
    \/ ResetToIntentBoth

SpecReferencePlan == InitReferencePlan /\ [][NextReferencePlan]_vars

-----------------------------------------------------------------------------
(* The cycle of one piece of work, with commitments that are due a day after
   they are made *)

\* due_at = datetime.utcnow() + timedelta(days=1)
CreateCommitmentDueLater ==
    Step /\ \E w \in WorkItemIds, i \in CommitmentInputs :
                create_commitment(w, i[1], i[2], now + 1)

NextSpine ==
    \/ Tick
    \/ CreateWorkItem
    \/ AddConstraint
    \/ ClearConstraint
    \/ CreateCommitmentDueLater
    \/ CompleteCommitment
    \/ FailCommitment
    \/ ResetToIntent

SpecSpine == Init /\ [][NextSpine]_vars

-----------------------------------------------------------------------------
(* Work items created with any of their optional fields given or left out *)

\* (location, reference_plan_system) of a WorkItemCreate: each given or None
OptionalFieldInputs ==
    {<<None, None>>, <<"Grid A1-A5", None>>, <<None, "MSP">>, <<"Grid A1-A5", "MSP">>}

CreateWorkItemAny ==
    Step /\ \E i \in OptionalFieldInputs : create_work_item(i[1], i[2])

NextCreate ==
    \/ CreateWorkItemAny
    \/ AddConstraint
    \/ ClearConstraint
    \/ CreateCommitment

SpecCreate == Init /\ [][NextCreate]_vars

-----------------------------------------------------------------------------
(* Properties.  `last` is the result of the step just taken: in an action     *)
(* formula last' names the call that made the step, the unprimed variables    *)
(* are the state it was made in and the primed ones the state it left.        *)

\* C1: create_commitment never succeeds when the work item is not Ready, nor when
\* the work item already has an Active commitment: it raises RefusalError, adds no
\* commitment and leaves the work item's state as it was.
C1_CommitRefusedUnlessReadyAndFree ==
    [][\A w \in WorkItemIds :
         (/\ last'.op = "create_commitment"
          /\ last'.id = w
          /\ \/ work_items[w].state # READY
             \/ \E k \in CommitmentIds : /\ commitments[k].work_item_id = w
                                         /\ commitments[k].status = ACTIVE)
         => /\ last'.outcome = "RefusalError"
            /\ commitments' = commitments
            /\ work_items'[w].state = work_items[w].state]_vars

\* a commit on a Not Ready item with an Open constraint was refused, citing it
C1_Witness ==
    /\ last.op = "create_commitment"
    /\ last.outcome = "RefusalError"
    /\ last.pre_state = NOT_READY
    /\ last.open_constraints # <<>>
    /\ commitments = <<>>

\* C2: in every state one caller can reach, a work item has at most one Active
\* commitment.
C2_AtMostOneActiveCommitment ==
    \A w \in WorkItemIds :
        Cardinality({k \in CommitmentIds : /\ commitments[k].work_item_id = w
                                           /\ commitments[k].status = ACTIVE}) <= 1

\* a second commit was refused because the first commitment is still Active
C2_Witness ==
    /\ last.op = "create_commitment"
    /\ last.outcome = "RefusalError"
    /\ last.pre_state = COMMITTED
    /\ \E k \in CommitmentIds : /\ commitments[k].work_item_id = last.id
                                /\ commitments[k].status = ACTIVE

\* C3: of two concurrent create_commitment requests for the same work item at most
\* one succeeds, and no interleaving leaves the work item two Active commitments.
C3_ConcurrentCommitsExclude ==
    \A s \in Sessions, t \in Sessions :
        (/\ s # t
         /\ sessions[s].pc = "done"
         /\ sessions[t].pc = "done"
         /\ sessions[s].work_item_id = sessions[t].work_item_id)
        => /\ ~(sessions[s].outcome = "ok" /\ sessions[t].outcome = "ok")
           /\ Cardinality({k \in CommitmentIds :
                              /\ commitments[k].work_item_id = sessions[s].work_item_id
                              /\ commitments[k].status = ACTIVE}) <= 1

\* C4: calculate_readiness answers Ready exactly for a non-empty collection whose
\* members are all Cleared, and Not Ready otherwise, in whatever order the
\* constraints come.
C4_ReadyIffNonEmptyAndAllCleared ==
    \A w \in WorkItemIds :
        LET cs == work_item_constraints(constraints, w)
        IN  \A f \in Permutations(DOMAIN cs) :
                LET p == [i \in DOMAIN cs |-> cs[f[i]]]
                IN  calculate_readiness(p) =
                        IF Len(cs) > 0 /\ \A i \in DOMAIN cs : cs[i].status = CLEARED
                        THEN READY ELSE NOT_READY

\* a Cleared constraint followed by an Open one: the loop has to go past the first
C4_Witness ==
    \E w \in WorkItemIds :
        LET cs == work_item_constraints(constraints, w)
        IN  /\ Len(cs) = 2
            /\ cs[1].status = CLEARED
            /\ cs[2].status = OPEN
            /\ work_items[w].state = NOT_READY

\* C5: add_constraint on a Ready work item leaves it Not Ready.
C5_AddOnReadyGivesNotReady ==
    (last.op = "add_constraint" /\ last.pre_state = READY)
    => work_items[constraints[last.id].work_item_id].state = NOT_READY

C5_Witness ==
    /\ last.op = "add_constraint"
    /\ last.pre_state = READY
    /\ constraints[last.id].status = OPEN

\* C6: on a Not Ready work item, clear_constraint of an Open constraint leaves the
\* item Ready when every other constraint of the item is Cleared, and Not Ready
\* when another one is still Open.
C6_ClearLastOpenGivesReady ==
    [][\A c \in ConstraintIds :
         LET w == constraints[c].work_item_id
             others_cleared ==
                 \A d \in ConstraintIds :
                     (d # c /\ constraints[d].work_item_id = w)
                     => constraints[d].status = CLEARED
         IN  (/\ last'.op = "clear_constraint"
              /\ last'.id = c
              /\ work_items[w].state = NOT_READY
              /\ constraints[c].status = OPEN)
             => work_items'[w].state = IF others_cleared THEN READY ELSE NOT_READY]_vars

\* the second of two constraints was cleared last and the item became Ready
C6_Witness ==
    /\ last.op = "clear_constraint"
    /\ last.pre_state = NOT_READY
    /\ Len(constraints) = 2
    /\ constraints[1].work_item_id = constraints[2].work_item_id
    /\ work_items[constraints[last.id].work_item_id].state = READY

\* C7: complete_commitment after the due time leaves the commitment Failed with
\* failed_at set and completed_at not set, the work item Failed, and one new
\* learning signal with primary cause Other and the auto-failure note.
C7_LateCompletionIsFailure ==
    [][\A k \in CommitmentIds :
         (/\ last'.op = "complete_commitment"
          /\ last'.id = k
          /\ now > commitments[k].due_at)
         => /\ commitments'[k].status = FAILED
            /\ commitments'[k].failed_at # NoTime
            /\ commitments'[k].completed_at = NoTime
            /\ work_items'[commitments[k].work_item_id].state = FAILED
            /\ Len(learning_signals') = Len(learning_signals) + 1
            /\ learning_signals'[Len(learning_signals')].commitment_id = k
            /\ learning_signals'[Len(learning_signals')].primary_cause = CAUSE_OTHER
            /\ learning_signals'[Len(learning_signals')].notes = AutoFailNote]_vars

\* C8: complete_commitment at or before the due time sets the commitment Complete,
\* stamps completed_at, sets the work item Complete and adds no learning signal.
C8_OnTimeCompletionCompletes ==
    [][\A k \in CommitmentIds :
         (/\ last'.op = "complete_commitment"
          /\ last'.id = k
          /\ now <= commitments[k].due_at)
         => /\ commitments'[k].status = COMPLETE
            /\ commitments'[k].completed_at = now
            /\ work_items'[commitments[k].work_item_id].state = COMPLETE
            /\ learning_signals' = learning_signals]_vars

\* a commitment completed exactly at its due time
C8_Witness ==
    /\ last.op = "complete_commitment"
    /\ commitments[last.id].status = COMPLETE
    /\ commitments[last.id].completed_at = commitments[last.id].due_at
    /\ now = commitments[last.id].due_at
    /\ work_items[commitments[last.id].work_item_id].state = COMPLETE

\* C9: fail_commitment with a primary cause sets the commitment Failed, stamps
\* failed_at, sets the work item Failed and adds exactly one learning signal, with
\* that cause, the key derived from it, and the ids of the commitment and of its
\* work item.
C9_FailureRecordsOneSignal ==
    [][\A k \in CommitmentIds :
         (/\ last'.op = "fail_commitment"
          /\ last'.id = k
          /\ last'.outcome = "ok")
         => LET w == commitments[k].work_item_id
                new == learning_signals'[Len(learning_signals')]
            IN  /\ last'.input[1] \in PrimaryCause
                /\ commitments'[k].status = FAILED
                /\ commitments'[k].failed_at = now
                /\ work_items'[w].state = FAILED
                /\ Len(learning_signals') = Len(learning_signals) + 1
                /\ SubSeq(learning_signals', 1, Len(learning_signals))
                       = learning_signals
                /\ new.primary_cause = last'.input[1]
                /\ new.commitment_id = k
                /\ new.work_item_id = w
                /\ new.drilldown_key =
                       last'.input[1] \o "|" \o work_items[w].location
                                      \o "|" \o "no_reference"]_vars

\* a Committed item's commitment was failed for Weather
C9_Witness ==
    /\ last.op = "fail_commitment"
    /\ last.outcome = "ok"
    /\ last.pre_state = COMMITTED
    /\ commitments[last.id].status = FAILED
    /\ learning_signals # <<>>
    /\ learning_signals[Len(learning_signals)].commitment_id = last.id
    /\ learning_signals[Len(learning_signals)].drilldown_key
           = "Weather|Grid A1-A5|no_reference"

\* C10: fail_commitment without a primary cause (left out, or None) is rejected
\* before anything is written: the commitment, the work item and the learning
\* signals are as they were.
C10_MissingCauseRejectedBeforeMutation ==
    [][(/\ last'.op = "fail_commitment"
        /\ last'.outcome # "ok")
       => /\ commitments' = commitments
          /\ work_items' = work_items
          /\ learning_signals' = learning_signals]_vars

\* C11: reset_to_intent succeeds only on a Complete or Failed work item, which it
\* sets to Intent; on an Intent, Not Ready, Ready or Committed one it raises an
\* error whose message names the current state, and the state stays as it was.
C11_ResetOnlyFromCompleteOrFailed ==
    last.op = "reset_to_intent"
    => IF last.pre_state \in {COMPLETE, FAILED}
       THEN /\ last.outcome = "ok"
            /\ work_items[last.id].state = INTENT
       ELSE /\ last.pre_state \in {INTENT, NOT_READY, READY, COMMITTED}
            /\ last.outcome = "ValueError"
            /\ \/ last.message = "Can only reset Failed or Complete work items. "
                                   \o "Current state: " \o last.pre_state
               \/ last.message = "Can only reset Failed or Complete work items. "
                                   \o "Current state: WorkItemState."
                                   \o member_name(last.pre_state)
            /\ work_items[last.id].state = last.pre_state

\* a reset of a Committed work item was rejected
C11_Witness ==
    /\ last.op = "reset_to_intent"
    /\ last.outcome = "ValueError"
    /\ last.pre_state = COMMITTED
    /\ work_items[last.id].state = COMMITTED

\* C12: reset_to_intent changes nothing but the work item's state: every
\* constraint, commitment and learning signal is left as it was, in number and in
\* content, and so are the work item's other fields.
C12_ResetKeepsHistory ==
    [][\A w \in WorkItemIds :
         (last'.op = "reset_to_intent" /\ last'.id = w)
         => /\ constraints' = constraints
            /\ commitments' = commitments
            /\ learning_signals' = learning_signals
            /\ work_items' = [work_items EXCEPT ![w].state = work_items'[w].state]]_vars

\* a Failed work item with a cleared constraint, a failed commitment and its
\* learning signal was reset
C12_Witness ==
    /\ last.op = "reset_to_intent"
    /\ last.outcome = "ok"
    /\ last.pre_state = FAILED
    /\ work_items[last.id].state = INTENT
    /\ \E c \in ConstraintIds : /\ constraints[c].work_item_id = last.id
                                /\ constraints[c].status = CLEARED
    /\ \E k \in CommitmentIds : /\ commitments[k].work_item_id = last.id
                                /\ commitments[k].status = FAILED
    /\ \E l \in SignalIds : learning_signals[l].work_item_id = last.id

\* C13: every refused create_commitment appends exactly one audit event of type
\* commitment_refused_not_ready for the work item, carrying the acting user, the
\* work item id, the constraint count and the ids of all its Open constraints.
C13_RefusalIsAudited ==
    [][\A w \in WorkItemIds :
         (/\ last'.op = "create_commitment"
          /\ last'.id = w
          /\ last'.outcome = "RefusalError")
         => /\ Len(audit_events') = Len(audit_events) + 1
            /\ SubSeq(audit_events', 1, Len(audit_events)) = audit_events
            /\ LET e == audit_events'[Len(audit_events')]
               IN  /\ e.event_type = "commitment_refused_not_ready"
                   /\ e.entity_type = "WorkItem"
                   /\ e.entity_id = w
                   /\ e.user_id = last'.input[1]
                   /\ e.payload_json.work_item_id = w
                   /\ e.payload_json.attempted_by_user_id = last'.input[1]
                   /\ e.payload_json.constraint_count =
                          Cardinality({c \in ConstraintIds :
                                          constraints[c].work_item_id = w})
                   /\ e.payload_json.open_constraint_ids =
                          {c \in ConstraintIds : /\ constraints[c].work_item_id = w
                                                 /\ constraints[c].status = OPEN}]_vars

\* C14: when create_commitment refuses because the work item is not Ready, the
\* refusal's list holds one entry "type: description" for each Open constraint of
\* the work item and the message spells that list out; for a work item with no
\* constraint at all the message says so and the list is empty.
C14_RefusalCitesOpenConstraints ==
    (/\ last.op = "create_commitment"
     /\ last.outcome = "RefusalError"
     /\ ~ \E k \in CommitmentIds : /\ commitments[k].work_item_id = last.id
                                   /\ commitments[k].status = ACTIVE)
    => LET mine == {c \in ConstraintIds : constraints[c].work_item_id = last.id}
           open == {c \in mine : constraints[c].status = OPEN}
           named(c) == constraints[c].type \o ": "
                         \o (IF constraints[c].description \in {None, ""}
                             THEN "(no description)"
                             ELSE constraints[c].description)
           cited == last.open_constraints
       IN  IF mine = {}
           THEN /\ cited = <<>>
                /\ last.message = "REFUSAL: Cannot commit work with no constraints. "
                                    \o "Add at least one constraint and clear it to "
                                    \o "demonstrate readiness."
           ELSE /\ \A c \in open : \E i \in DOMAIN cited : cited[i] = named(c)
                /\ Len(cited) = Cardinality(open)
                /\ last.message =
                       "REFUSAL: Cannot commit Not Ready work. "
                         \o "The following constraints are still Open: "
                         \o (CASE Len(cited) = 0 -> ""
                               [] Len(cited) = 1 -> cited[1]
                               [] Len(cited) = 2 -> cited[1] \o ", " \o cited[2]
                               [] Len(cited) = 3 -> cited[1] \o ", " \o cited[2]
                                                             \o ", " \o cited[3])

\* of two constraints one is Cleared; the refusal cites the Open one, which has no
\* description
C14_Witness ==
    /\ last.op = "create_commitment"
    /\ last.outcome = "RefusalError"
    /\ last.pre_state = NOT_READY
    /\ Len(constraints) = 2
    /\ \E c \in ConstraintIds : constraints[c].status = CLEARED
    /\ last.open_constraints = <<"Access: (no description)">>

\* C15: a work item's state changes only along Intent->Not Ready, Not Ready->Ready,
\* Ready->Not Ready, Ready->Committed, Committed->Complete, Committed->Failed,
\* Complete->Intent and Failed->Intent.
C15_OnlyListedTransitions ==
    [][\A w \in WorkItemIds :
         work_items'[w].state # work_items[w].state
         => <<work_items[w].state, work_items'[w].state>> \in
                {<<INTENT, NOT_READY>>, <<NOT_READY, READY>>, <<READY, NOT_READY>>,
                 <<READY, COMMITTED>>, <<COMMITTED, COMPLETE>>, <<COMMITTED, FAILED>>,
                 <<COMPLETE, INTENT>>, <<FAILED, INTENT>>}]_vars

\* C16: on a Committed, Complete or Failed work item, add_constraint,
\* clear_constraint and reopen_constraint change the constraint and leave the
\* work item's state as it was.
C16_ConstraintChangesKeepFrozenState ==
    (/\ last.op \in {"add_constraint", "clear_constraint", "reopen_constraint"}
     /\ last.pre_state \in {COMMITTED, COMPLETE, FAILED})
    => /\ work_items[constraints[last.id].work_item_id].state = last.pre_state
       /\ last.op = "add_constraint"
          => /\ last.id = Len(constraints)
             /\ constraints[last.id].status = OPEN
       /\ last.op = "clear_constraint"
          => /\ constraints[last.id].status = CLEARED
             /\ constraints[last.id].cleared_by_user_id = last.input[1]
       /\ last.op = "reopen_constraint"
          => constraints[last.id].status = OPEN

\* the only constraint of a Committed work item was reopened: recomputed, the
\* state would be Not Ready
C16_Witness ==
    /\ last.op = "reopen_constraint"
    /\ last.pre_state = COMMITTED
    /\ constraints[last.id].status = OPEN
    /\ work_items[constraints[last.id].work_item_id].state = COMMITTED

\* C17: in every reachable state a constraint that is Open has neither
\* cleared_by_user_id nor cleared_at, and one that is Cleared has both.
C17_ClearerFieldsFollowStatus ==
    \A c \in ConstraintIds :
        /\ constraints[c].status = OPEN
           => /\ constraints[c].cleared_by_user_id = None
              /\ constraints[c].cleared_at = NoTime
        /\ constraints[c].status = CLEARED
           => /\ constraints[c].cleared_by_user_id # None
              /\ constraints[c].cleared_at # NoTime

\* a constraint was cleared and then reopened, while another one is Cleared
C17_Witness ==
    /\ last.op = "reopen_constraint"
    /\ last.pre_state = READY
    /\ constraints[last.id].status = OPEN
    /\ constraints[last.id].cleared_at = NoTime
    /\ \E c \in ConstraintIds : /\ constraints[c].status = CLEARED
                                /\ constraints[c].cleared_by_user_id = "user_123"

\* C18: in every reachable state an Active commitment has neither completed_at nor
\* failed_at, a Complete one has completed_at only and a Failed one has failed_at
\* only; no commitment ever has both.
C18_ExactlyOneTerminalTimestamp ==
    \A k \in CommitmentIds :
        /\ commitments[k].status = ACTIVE
           => /\ commitments[k].completed_at = NoTime
              /\ commitments[k].failed_at = NoTime
        /\ commitments[k].status = COMPLETE
           => /\ commitments[k].completed_at # NoTime
              /\ commitments[k].failed_at = NoTime
        /\ commitments[k].status = FAILED
           => /\ commitments[k].completed_at = NoTime
              /\ commitments[k].failed_at # NoTime

\* C19: once a commitment exists, no engine operation changes its due_at, its
\* owner_user_id, its committed_by_user_id or its work_item_id.
C19_CommitmentPledgeIsImmutable ==
    [][\A k \in CommitmentIds :
         /\ k \in DOMAIN commitments'
         /\ commitments'[k].due_at = commitments[k].due_at
         /\ commitments'[k].owner_user_id = commitments[k].owner_user_id
         /\ commitments'[k].committed_by_user_id = commitments[k].committed_by_user_id
         /\ commitments'[k].work_item_id = commitments[k].work_item_id]_vars

\* a commitment due at 0 was failed after its due time and is as it was pledged
C19_Witness ==
    /\ last.op = "fail_commitment"
    /\ last.outcome = "ok"
    /\ now > commitments[last.id].due_at
    /\ commitments[last.id].status = FAILED
    /\ commitments[last.id].due_at = 0
    /\ commitments[last.id].owner_user_id = "user_123"
    /\ commitments[last.id].committed_by_user_id = "user_456"

\* C20: attempt_modify_commitment with a change to due_at, owner_user_id,
\* committed_by_user_id or work_item_id fails with an immutability-violation error
\* (the ValueError the tests expect), and leaves the commitment as it was.
C20_ModificationRaisesImmutabilityViolation ==
    [][\A k \in CommitmentIds :
         (last'.op = "attempt_modify_commitment" /\ last'.id = k)
         => /\ last'.outcome = "ValueError"
            /\ last'.input[1] \in {"due_at", "owner_user_id", "committed_by_user_id",
                                   "work_item_id"}
            /\ commitments'[k] = commitments[k]]_vars

\* C21: each constraint operation appends exactly one audit event about the
\* constraint: add_constraint a constraint_created event with the work item id
\* and the type, clear_constraint a constraint_cleared event with the work item id
\* and the clearing user, reopen_constraint a constraint_reopened event.
C21_ConstraintOperationsAreAudited ==
    [][\A c \in DOMAIN constraints' :
         (/\ last'.op \in {"add_constraint", "clear_constraint", "reopen_constraint"}
          /\ last'.id = c
          /\ last'.outcome = "ok")
         => /\ Len(audit_events') = Len(audit_events) + 1
            /\ LET e == audit_events'[Len(audit_events')]
               IN  /\ e.entity_type = "Constraint"
                   /\ e.entity_id = c
                   /\ e.payload_json.work_item_id = constraints'[c].work_item_id
                   /\ last'.op = "add_constraint"
                      => /\ e.event_type = "constraint_created"
                         /\ e.payload_json.type = constraints'[c].type
                   /\ last'.op = "clear_constraint"
                      => /\ e.event_type = "constraint_cleared"
                         /\ e.user_id = last'.input[1]
                   /\ last'.op = "reopen_constraint"
                      => e.event_type = "constraint_reopened"]_vars

\* C22: every successful create_commitment appends exactly one commitment_created
\* audit event whose entity is the new commitment, whose user is the committing
\* user and whose payload holds the work item id.
C22_CommitmentCreationIsAudited ==
    [][(last'.op = "create_commitment" /\ last'.outcome = "ok")
       => /\ Len(audit_events') = Len(audit_events) + 1
          /\ LET e == audit_events'[Len(audit_events')]
             IN  /\ e.event_type = "commitment_created"
                 /\ e.entity_type = "Commitment"
                 /\ e.entity_id = Len(commitments')
                 /\ e.user_id = last'.input[1]
                 /\ e.payload_json.work_item_id = last'.id]_vars

\* C23: terminating a commitment appends exactly one audit event about it: an
\* on-time complete_commitment a commitment_completed event with on_time true,
\* fail_commitment and a late complete_commitment a commitment_failed event with
\* the primary cause.
C23_CommitmentTerminationIsAudited ==
    [][\A k \in CommitmentIds :
         (/\ last'.op \in {"complete_commitment", "fail_commitment"}
          /\ last'.id = k
          /\ last'.outcome = "ok")
         => /\ Len(audit_events') = Len(audit_events) + 1
            /\ LET e == audit_events'[Len(audit_events')]
               IN  /\ e.entity_type = "Commitment"
                   /\ e.entity_id = k
                   /\ commitments'[k].status = COMPLETE
                      => /\ e.event_type = "commitment_completed"
                         /\ e.payload_json.on_time = TRUE
                   /\ commitments'[k].status = FAILED
                      => /\ e.event_type = "commitment_failed"
                         /\ e.payload_json.primary_cause =
                                learning_signals'[Len(learning_signals')].primary_cause]_vars

\* C25: audit writes and entity mutations are committed together: in no persisted
\* state is a constraint or a commitment visible without the audit event of its
\* creation, a terminated commitment without the event of its termination, or
\* such an event without its entity.
C25_MutationsAndAuditEventsGoTogether ==
    LET events == {audit_events[i] : i \in DOMAIN audit_events}
        about(type, kind, id) ==
            \E e \in events : /\ e.event_type = type
                              /\ e.entity_type = kind
                              /\ e.entity_id = id
    IN  /\ \A c \in ConstraintIds : about("constraint_created", "Constraint", c)
        /\ \A k \in CommitmentIds :
               /\ about("commitment_created", "Commitment", k)
               /\ commitments[k].status = COMPLETE
                  => about("commitment_completed", "Commitment", k)
               /\ commitments[k].status = FAILED
                  => about("commitment_failed", "Commitment", k)
        /\ \A e \in events :
               /\ e.entity_type = "Constraint" => e.entity_id \in ConstraintIds
               /\ e.entity_type = "Commitment" => e.entity_id \in CommitmentIds

\* C26: add_constraint, clear_constraint and reopen_constraint are atomic: no
\* committed state shows the constraint changed and the work item's state not
\* yet recomputed from it.
C26_ConstraintAndStateCommitTogether ==
    \A s \in Sessions :
        sessions[s].pc = "constraint_committed"
        => work_items = update_work_item_state(work_items, constraints,
                                               sessions[s].work_item_id)

\* C27 (as stated): the drilldown key is the primary cause, the location and the
\* reference system joined by "|", with "no_location" in place of an absent
\* location and "no_reference" in place of an absent reference system.
C27_KeyJoinsPartsWithPlaceholdersForAbsent ==
    last.op = "_generate_drilldown_key"
    => last.message =
           last.input[1]
             \o "|" \o (IF last.input[2] = None THEN "no_location" ELSE last.input[2])
             \o "|" \o (IF last.input[3] = None THEN "no_reference" ELSE last.input[3])

\* C27 (amended): the drilldown key is the primary cause, the location and the
\* reference system joined by "|", with "no_location" in place of a location that
\* is absent or the empty string and "no_reference" in place of a reference
\* system that is absent or the empty string.
C27_KeyJoinsPartsWithPlaceholdersForAbsentOrEmpty ==
    last.op = "_generate_drilldown_key"
    => last.message =
           last.input[1]
             \o "|" \o (IF last.input[2] \in {None, ""} THEN "no_location"
                        ELSE last.input[2])
             \o "|" \o (IF last.input[3] \in {None, ""} THEN "no_reference"
                        ELSE last.input[3])

\* the key of ("Materials", None, None)
C27_Witness ==
    /\ last.op = "_generate_drilldown_key"
    /\ last.input = <<"Materials", None, None>>
    /\ last.message = "Materials|no_location|no_reference"

\* C28: the drilldown read returns one group per distinct drilldown key, with the
\* number of signals of that key and the latest of their creation times, ordered
\* by descending count and, among equal counts, by key, so that the signals
\* alone determine the order.  (The keys compared here differ in their cause.)
C28_DrilldownOrderIsDetermined ==
    last.op = "get_drilldown"
    => LET rows == last.results
           keys == {learning_signals[l].drilldown_key : l \in SignalIds}
           of(k) == {l \in SignalIds : learning_signals[l].drilldown_key = k}
           alphabetical == <<"Access", "Information", "Interfaces", "Materials",
                             "Other", "Permits", "Plant or equipment", "Resources",
                             "Weather">>
           rank(cause) == CHOOSE n \in DOMAIN alphabetical : alphabetical[n] = cause
           cause(i) == last.drilldown_items[i].primary_cause
       IN  /\ Len(rows) = Cardinality(keys)
           /\ \A k \in keys : \E i \in DOMAIN rows :
                  /\ rows[i].drilldown_key = k
                  /\ rows[i].count = Cardinality(of(k))
                  /\ \E l \in of(k) : rows[i].latest = learning_signals[l].created_at
                  /\ \A l \in of(k) : rows[i].latest >= learning_signals[l].created_at
           /\ \A i, j \in DOMAIN rows :
                  i < j => \/ rows[i].count > rows[j].count
                           \/ /\ rows[i].count = rows[j].count
                              /\ rank(cause(i)) < rank(cause(j))

\* C29: the reference plan of a work item has no influence on readiness or on
\* what transitions are allowed: when a call made on a work item without a
\* reference plan is made again, with the same arguments, on a work item that
\* differs in its reference plan alone and has had the same calls so far, the
\* second call finds its work item in the same state as the first did, ends the
\* same way (the same success, refusal or error, citing the same open
\* constraints) and leaves its work item in the same state.
C29_ReferencePlanHasNoInfluence ==
    [][to_repeat => /\ last'.op = last.op
                    /\ last'.pre_state = last.pre_state
                    /\ last'.outcome = last.outcome
                    /\ last'.open_constraints = last.open_constraints
                    /\ work_items'[2].state = work_items'[1].state]_vars

\* both work items, one linked to a reference plan and one not, were led to a
\* commitment and the second commitment has just been failed like the first
C29_Witness ==
    /\ last.op = "fail_commitment"
    /\ last.outcome = "ok"
    /\ work_item_of_last = 2
    /\ work_items[1].reference_plan_system = None
    /\ work_items[2].reference_plan_system \in ReferencePlanSystem
    /\ work_items[1].state = FAILED
    /\ work_items[2].state = FAILED
    /\ Len(learning_signals) = 2

\* C30: the cycle of a work item, end to end.  On a new work item without
\* constraints an attempt to commit is refused, citing that there are no
\* constraints; adding a constraint then gives Not Ready; clearing it gives
\* Ready; committing with a due time in the future gives Committed with exactly
\* one Active commitment; failing that commitment with cause Weather gives
\* Failed with exactly one learning signal, keyed Weather|<location>|no_reference;
\* resetting gives Intent with as many constraints, commitments and learning
\* signals as before.  Each step is taken from the state the one before left.
C30_EndToEndScenario ==
    [][\A w \in WorkItemIds :
        LET cons == {c \in ConstraintIds : constraints[c].work_item_id = w}
            coms == {k \in CommitmentIds : commitments[k].work_item_id = w}
            sigs == {l \in SignalIds : learning_signals[l].work_item_id = w}
            cons_after == {c \in DOMAIN constraints' : constraints'[c].work_item_id = w}
            coms_after == {k \in DOMAIN commitments' : commitments'[k].work_item_id = w}
            sigs_after == {l \in DOMAIN learning_signals' :
                              learning_signals'[l].work_item_id = w}
            state == work_items[w].state
            state_after == work_items'[w].state
            called(op, id) == steps' = steps + 1 /\ last'.op = op /\ last'.id = id
            new == state = INTENT /\ cons = {} /\ coms = {} /\ sigs = {}
            added == /\ state = NOT_READY /\ coms = {} /\ sigs = {}
                     /\ Cardinality(cons) = 1
                     /\ \A c \in cons : constraints[c].status = OPEN
            cleared == /\ state = READY /\ coms = {} /\ sigs = {}
                       /\ Cardinality(cons) = 1
                       /\ \A c \in cons : constraints[c].status = CLEARED
            committed == /\ state = COMMITTED /\ sigs = {}
                         /\ Cardinality(coms) = 1
                         /\ \A k \in coms : commitments[k].status = ACTIVE
            failed == /\ state = FAILED
                      /\ Cardinality(coms) = 1 /\ Cardinality(sigs) = 1
                      /\ \A k \in coms : commitments[k].status = FAILED
        IN  /\ new /\ called("create_commitment", w)
               => /\ last'.outcome = "RefusalError"
                  /\ last'.message = "REFUSAL: Cannot commit work with no constraints. "
                                       \o "Add at least one constraint and clear it to "
                                       \o "demonstrate readiness."
                  /\ state_after = INTENT
                  /\ coms_after = {}
            /\ new /\ (\E c \in cons_after : called("add_constraint", c))
               => /\ last'.outcome = "ok"
                  /\ state_after = NOT_READY
                  /\ Cardinality(cons_after) = 1
            /\ added /\ (\E c \in cons : called("clear_constraint", c))
               => /\ last'.outcome = "ok"
                  /\ state_after = READY
            /\ cleared /\ called("create_commitment", w) /\ last'.input[3] > now
               => /\ last'.outcome = "ok"
                  /\ state_after = COMMITTED
                  /\ Cardinality(coms_after) = 1
                  /\ \A k \in coms_after : commitments'[k].status = ACTIVE
            /\ committed /\ (\E k \in coms : called("fail_commitment", k))
                         /\ last'.input[1] = "Weather"
               => /\ last'.outcome = "ok"
                  /\ state_after = FAILED
                  /\ Cardinality(sigs_after) = 1
                  /\ \A l \in sigs_after :
                         learning_signals'[l].drilldown_key =
                             "Weather|" \o work_items[w].location \o "|no_reference"
            /\ failed /\ called("reset_to_intent", w)
               => /\ last'.outcome = "ok"
                  /\ state_after = INTENT
                  /\ Len(constraints') = Len(constraints)
                  /\ Len(commitments') = Len(commitments)
                  /\ Len(learning_signals') = Len(learning_signals)
                  /\ Cardinality(cons_after) = Cardinality(cons)
                  /\ Cardinality(coms_after) = Cardinality(coms)
                  /\ Cardinality(sigs_after) = Cardinality(sigs)
      ]_vars

\* the work item at the end of the scenario: back in Intent after its reset, with
\* its cleared constraint, its commitment (due after the time it failed, now
\* Failed) and its one learning signal
C30_Witness ==
    /\ last.op = "reset_to_intent"
    /\ last.outcome = "ok"
    /\ last.pre_state = FAILED
    /\ work_items[1].state = INTENT
    /\ Len(constraints) = 1
    /\ constraints[1].status = CLEARED
    /\ Len(commitments) = 1
    /\ commitments[1].status = FAILED
    /\ commitments[1].due_at > commitments[1].failed_at
    /\ Len(learning_signals) = 1
    /\ learning_signals[1].drilldown_key = "Weather|Grid A1-A5|no_reference"

\* C31: a work item is created in state Intent whatever its optional fields are,
\* and adding a constraint to a work item in Intent (its first constraint) moves
\* it to Not Ready.
C31_CreatedInIntentThenNotReady ==
    /\ last.op = "create_work_item" => work_items[last.id].state = INTENT
    /\ last.op = "add_constraint" /\ last.pre_state = INTENT
       => work_items[constraints[last.id].work_item_id].state = NOT_READY

\* a work item created without a location and linked to a reference plan has
\* just received its first constraint
C31_Witness ==
    /\ last.op = "add_constraint"
    /\ last.pre_state = INTENT
    /\ LET w == constraints[last.id].work_item_id
       IN  /\ work_items[w].location = None
           /\ work_items[w].reference_plan_system = "MSP"
           /\ work_items[w].state = NOT_READY
           /\ Len(work_item_constraints(constraints, w)) = 1

\* C32: reopen_constraint on a Cleared constraint of a Ready work item sets the
\* constraint back to Open, with neither a clearer nor a clearing time, and
\* leaves the work item Not Ready when the call returns.
C32_ReopenOnReadyGivesNotReady ==
    (last.op = "reopen_constraint" /\ last.pre_state = READY)
    => /\ constraints[last.id].status = OPEN
       /\ constraints[last.id].cleared_by_user_id = None
       /\ constraints[last.id].cleared_at = NoTime
       /\ work_items[constraints[last.id].work_item_id].state = NOT_READY

\* the only constraint of a Ready work item has just been reopened
C32_Witness ==
    /\ last.op = "reopen_constraint"
    /\ last.outcome = "ok"
    /\ last.pre_state = READY
    /\ Len(constraints) = 1
    /\ constraints[1].status = OPEN
    /\ work_items[constraints[1].work_item_id].state = NOT_READY

\* C33: in every state one caller can reach, a work item that is Ready has at
\* least one constraint and all its constraints are Cleared, and a work item that
\* is Not Ready has no constraint or at least one Open constraint: a stored state
\* of Ready or Not Ready is the readiness of the item's constraints.
C33_StoredReadinessMatchesConstraints ==
    \A w \in WorkItemIds :
        LET cs == {c \in ConstraintIds : constraints[c].work_item_id = w}
        IN  /\ work_items[w].state = READY
               => /\ cs # {}
                  /\ \A c \in cs : constraints[c].status = CLEARED
            /\ work_items[w].state = NOT_READY
               => \/ cs = {}
                  \/ \E c \in cs : constraints[c].status = OPEN

\* after a cycle that ended in a reset, reopening the constraint of the work
\* item (then in Intent) has made it Not Ready
C33_Witness ==
    /\ last.op = "reopen_constraint"
    /\ last.pre_state = INTENT
    /\ commitments # <<>>
    /\ constraints[last.id].status = OPEN
    /\ work_items[constraints[last.id].work_item_id].state = NOT_READY

\* C34: in every reachable state a work item is Committed if and only if one of
\* its commitments is Active; no sequence of complete_commitment, fail_commitment
\* and reset_to_intent calls, calls on a commitment of an earlier cycle included,
\* leaves a work item in another state while one of its commitments is Active.
C34_CommittedIffActiveCommitment ==
    \A w \in WorkItemIds :
        work_items[w].state = COMMITTED <=> has_active_commitment(commitments, w)

\* C35: the status of a commitment is final once it is no longer Active:
\* complete_commitment or fail_commitment called on a commitment that is already
\* Complete or Failed changes neither the status and the timestamps of that
\* commitment nor the state of its work item.
C35_TerminalCommitmentIsFinal ==
    [][\A k \in CommitmentIds :
         (/\ last'.op \in {"complete_commitment", "fail_commitment"}
          /\ last'.id = k
          /\ steps' = steps + 1
          /\ commitments[k].status \in {COMPLETE, FAILED})
         => /\ commitments'[k].status = commitments[k].status
            /\ commitments'[k].completed_at = commitments[k].completed_at
            /\ commitments'[k].failed_at = commitments[k].failed_at
            /\ work_items'[commitments[k].work_item_id].state
                   = work_items[commitments[k].work_item_id].state]_vars

\* C36: in every reachable state a commitment has at most one learning signal,
\* and has exactly one if and only if its status is Failed, however often
\* fail_commitment or complete_commitment is called on it.
C36_OneSignalIffFailed ==
    \A k \in CommitmentIds :
        LET signals == {l \in SignalIds : learning_signals[l].commitment_id = k}
        IN  /\ Cardinality(signals) <= 1
            /\ Cardinality(signals) = 1 <=> commitments[k].status = FAILED

\* C37: when create_commitment runs concurrently with add_constraint (or
\* reopen_constraint) on the same Ready work item, no interleaving commits an
\* Active commitment for a work item that has, at the moment the commitment is
\* committed, an Open constraint in the database.
C37_NoCommitmentOverOpenConstraint ==
    [][(/\ last'.op = "create_commitment"
        /\ last'.outcome = "ok"
        /\ Len(commitments') = Len(commitments) + 1)
       => \A c \in DOMAIN constraints' :
              constraints'[c].work_item_id = last'.id
              => constraints'[c].status = CLEARED]_vars

\* C38: after reset_to_intent on a work item whose constraints are all Cleared,
\* the work item stays in Intent and every create_commitment on it is refused
\* until an add_constraint, clear_constraint or reopen_constraint call computes
\* its readiness again; reset by itself never makes a work item Ready.
C38_ResetItemWaitsInIntent ==
    [][\A w \in WorkItemIds :
         LET cs == {c \in ConstraintIds : constraints[c].work_item_id = w}
             reset_and_cleared ==
                 /\ work_items[w].state = INTENT
                 /\ cs # {}
                 /\ \A c \in cs : constraints[c].status = CLEARED
             recomputed ==
                 /\ last'.op \in {"add_constraint", "clear_constraint",
                                  "reopen_constraint"}
                 /\ constraints'[last'.id].work_item_id = w
         IN  /\ (last'.op = "reset_to_intent" /\ last'.id = w /\ last'.outcome = "ok")
                => work_items'[w].state = INTENT
             /\ (reset_and_cleared /\ ~recomputed)
                => /\ work_items'[w].state = INTENT
                   /\ (last'.op = "create_commitment" /\ last'.id = w)
                      => last'.outcome = "RefusalError"]_vars

\* C39: the drilldown key is injective: two failures that differ in their primary
\* cause, in their location (absent or present) or in their reference system
\* (absent or present) never get the same key, so they are never counted in the
\* same drilldown group.
C39_DrilldownKeyIsInjective ==
    last.op = "_generate_drilldown_key"
    => \A primary_cause \in PrimaryCause, location \in LocationInputs,
          reference_system \in {None} \cup ReferencePlanSystem :
           <<primary_cause, location, reference_system>> # last.input
           => generate_drilldown_key(primary_cause, location, reference_system)
                  # last.message

\* C40: create_commitment looks for an Active commitment before it looks at
\* readiness: whenever the work item already has an Active commitment, the call
\* is refused with the already-has-an-active-commitment refusal and an empty list
\* of open constraints, whatever the work item's state and constraints are.
C40_ActiveCommitmentIsCheckedFirst ==
    [][\A w \in WorkItemIds :
         (/\ has_active_commitment(commitments, w)
          /\ steps' = steps + 1
          /\ last'.op = "create_commitment"
          /\ last'.id = w)
         => /\ last'.outcome = "RefusalError"
            /\ last'.message = "REFUSAL: This work item already has an active "
                                 \o "commitment. Complete or fail the existing "
                                 \o "commitment first."
            /\ last'.open_constraints = <<>>
            /\ commitments' = commitments
            /\ work_items' = work_items]_vars

\* a commit was refused for the Active commitment of a work item that also has
\* an Open constraint, added after it was committed: none is cited
C40_Witness ==
    /\ last.op = "create_commitment"
    /\ last.outcome = "RefusalError"
    /\ last.open_constraints = <<>>
    /\ has_active_commitment(commitments, last.id)
    /\ \E c \in ConstraintIds : /\ constraints[c].work_item_id = last.id
                                /\ constraints[c].status = OPEN

====
